---- MODULE Spec2Model ----
(***************************************************************************)
(* Matching and assignment engine of model_dev/final_match.py:             *)
(* compute_final_matches_from_data (score aggregation with manual          *)
(* overrides) and perform_matching (greedy one-to-one assignment in three  *)
(* passes).                                                                *)
(*                                                                         *)
(* Scores are Python floats rounded to three decimals; the model holds     *)
(* them as integers in thousandths (0.7 is 700), with float('-inf') and    *)
(* float('inf') as NegInf and PosInf.  A pair key "mentee-mentor" is held  *)
(* as the tuple of its two id fields <<mentee, mentor>>; a manual entry    *)
(* "x-y" as <<x, y>>, an entry without a dash as a one-field tuple.        *)
(***************************************************************************)
EXTENDS Integers, Sequences, FiniteSets, TLC

VARIABLES
    results,            \* criterion name -> (pair key -> score), the argument
    manual_matches,     \* entries of the manual_matches argument
    manual_non_matches, \* entries of the manual_non_matches argument
    combined,           \* pair key -> record, the dict built by the aggregation
    order,              \* enumeration (insertion) order of combined's keys
    selected_pairs,     \* the list perform_matching builds and returns
    matched_mentees,
    matched_mentors,
    n_first,            \* len(selected_pairs) when the first pass ended
    n_second,           \* len(selected_pairs) when the second pass ended
    all_pairs,          \* the list compute_final_matches_from_data returns
    pc,
    request,            \* the POST /matching request being handled
    data_dir_complete,  \* the four default CSV files exist in DATA_DIR
    csv_inputs,         \* where compute_matching takes the four CSVs from
    raised,             \* the exception travelling up compute_matching's try
    status,             \* HTTP status of the response, 0 while there is none
    now,                \* what time.time() returns, in tenths of a second
    _ors_request_times, \* the deque of geographic_proximity.py
    recorded_requests,  \* every timestamp _wait_for_rate_limit has appended
    slept,              \* how long the last _wait_for_rate_limit call slept
    _location_cache,
    _distance_cache,
    _open_cage_geolocator, \* TRUE when the OpenCage geocoder was created
    geocoding,          \* the _city_to_coords call in progress or returned
    routing,            \* the _driving_distance_km call in progress or returned
    answers             \* location string -> what _city_to_coords returned

endpoint_vars == <<request, data_dir_complete, csv_inputs, raised, status>>

geo_vars == <<now, _ors_request_times, recorded_requests, slept, _location_cache,
              _distance_cache, _open_cage_geolocator, geocoding, routing, answers>>

vars == <<results, manual_matches, manual_non_matches, combined, order,
          selected_pairs, matched_mentees, matched_mentors, n_first, n_second,
          all_pairs, pc, endpoint_vars, geo_vars>>

---------------------------------------------------------------------------
(* Bounds of the model *)

NumMentees == 2
NumMentors == 2
MaxManual == 2

(* Program constants, in thousandths *)

NegInf == -1000000000
PosInf == 1000000000
InitialBestScore == -1000

Mentees == 1..NumMentees
Mentors == 1..NumMentors
Pairs == Mentees \X Mentors

Criteria == {"gender", "languages", "academia", "age_difference",
             "geographic_proximity"}

None == <<>>

---------------------------------------------------------------------------
(* Keys *)

MenteeOf(p) == p[1]
MentorOf(p) == p[2]

\* f"{mentor_id_str}-{mentee_id_str}"
pair_mentor_mentee_format(p) == <<MentorOf(p), MenteeOf(p)>>

Range(s) == {s[i] : i \in DOMAIN s}

\* every order in which a set's members can be enumerated
RECURSIVE Enumerations(_)
Enumerations(S) ==
    IF S = {} THEN {<<>>}
    ELSE UNION {{<<x>> \o rest : rest \in Enumerations(S \ {x})} : x \in S}

KeyBefore(p, q) ==
    MenteeOf(p) < MenteeOf(q) \/ (MenteeOf(p) = MenteeOf(q) /\ MentorOf(p) < MentorOf(q))

\* the members of a set of keys by ascending mentee id, then mentor id
KeyOrder(S) ==
    CHOOSE s \in Enumerations(S) :
        \A i, j \in DOMAIN s : i < j => KeyBefore(s[i], s[j])

Reverse(s) == [i \in 1..Len(s) |-> s[Len(s) + 1 - i]]

\* Iterating the set of key strings (for pair in all_pairs) follows no order the
\* language fixes.  The aggregation draws it from the ascending and the
\* descending key order; perform_matching itself is run under every
\* enumeration order in SpecSolver.
SetOrders(S) == {KeyOrder(S), Reverse(KeyOrder(S))}

---------------------------------------------------------------------------
(* Aggregation: compute_final_matches_from_data *)

\* results.get(category, {})
CategoryMap(res, c) == IF c \in DOMAIN res THEN res[c] ELSE <<>>

\* to_float(category.get(pair, {})): the pair's score, 0.0 when the map has no
\* entry for the pair
ScoreOf(res, c, p) ==
    IF p \in DOMAIN CategoryMap(res, c) THEN CategoryMap(res, c)[p] ELSE 0

\* the key sets joined with | instead of &
AllPairKeysUnion(res) ==
    DOMAIN CategoryMap(res, "gender")
    \cup DOMAIN CategoryMap(res, "languages")
    \cup DOMAIN CategoryMap(res, "academia")
    \cup DOMAIN CategoryMap(res, "geographic_proximity")
    \cup DOMAIN CategoryMap(res, "age_difference")

\* the age map intersected without the test for an empty map
AllPairKeysAgeRequired(res) ==
    DOMAIN CategoryMap(res, "gender")
    \cap DOMAIN CategoryMap(res, "languages")
    \cap DOMAIN CategoryMap(res, "academia")
    \cap DOMAIN CategoryMap(res, "geographic_proximity")
    \cap DOMAIN CategoryMap(res, "age_difference")

\* the keys present in every criterion map; an empty age map is skipped
AllPairKeys(res) ==
    LET base == DOMAIN CategoryMap(res, "gender")
                \cap DOMAIN CategoryMap(res, "languages")
                \cap DOMAIN CategoryMap(res, "academia")
                \cap DOMAIN CategoryMap(res, "geographic_proximity")
        age  == CategoryMap(res, "age_difference")
    IN  IF DOMAIN age # {} THEN base \cap DOMAIN age ELSE base

\* age = to_float(age) if age_data else 0.0, with age_data {} when the map is empty
AgeScore(res, p) ==
    LET age == CategoryMap(res, "age_difference")
    IN  IF DOMAIN age # {} THEN ScoreOf(res, "age_difference", p) ELSE 0

\* the gate with its language half dropped
ValidateGenderOnly(g, lang) == g > 0

\* valid = (g > 0 and lang > 0)
Validate(g, lang) == g > 0 /\ lang > 0

\* the two weights exchanged
TotalScoreWeightsSwapped(valid, a, d) ==
    IF ~valid THEN 0
    ELSE IF a = NegInf \/ d = NegInf THEN NegInf
    ELSE (3 * a + 7 * d) \div 10

\* 0.7 * a + 0.3 * d if valid else 0.0
TotalScore(valid, a, d) ==
    IF ~valid THEN 0
    ELSE IF a = NegInf \/ d = NegInf THEN NegInf
    ELSE (7 * a + 3 * d) \div 10

\* the test of the list alone (if manual_list:), the membership test dropped
InManualListNonEmpty(p, manual_list) == manual_list # {}

\* pair in manual_list or pair_mentor_mentee_format in manual_list
InManualList(p, manual_list) ==
    /\ manual_list # {}
    /\ (p \in manual_list \/ pair_mentor_mentee_format(p) \in manual_list)

\* the override raises the score and leaves valid as the scores set it
ApplyManualMatchScoreOnly(rec) ==
    [rec EXCEPT !.total_score = PosInf]

ApplyManualMatch(rec) ==
    [rec EXCEPT !.total_score = PosInf, !.valid = TRUE]

\* the override clears valid and leaves the score as computed
ApplyManualNonMatchValidOnly(rec) ==
    [rec EXCEPT !.valid = FALSE]

ApplyManualNonMatch(rec) ==
    [rec EXCEPT !.total_score = NegInf, !.valid = FALSE]

\* the two overrides applied in the other order, so that a manual match wins
CombineRecordMatchLast(res, mm, mnm, p) ==
    LET g     == ScoreOf(res, "gender", p)
        lang  == ScoreOf(res, "languages", p)
        a     == ScoreOf(res, "academia", p)
        d     == ScoreOf(res, "geographic_proximity", p)
        valid == Validate(g, lang)
        base  == [total_score          |-> TotalScore(valid, a, d),
                  academic_score       |-> a,
                  gender_score         |-> g,
                  language_score       |-> lang,
                  distance_score       |-> d,
                  age_difference_score |-> AgeScore(res, p),
                  valid                |-> valid]
        excluded == IF InManualList(p, mnm) THEN ApplyManualNonMatch(base) ELSE base
    IN  IF InManualList(p, mm) THEN ApplyManualMatch(excluded) ELSE excluded

CombineRecord(res, mm, mnm, p) ==
    LET g     == ScoreOf(res, "gender", p)
        lang  == ScoreOf(res, "languages", p)
        a     == ScoreOf(res, "academia", p)
        d     == ScoreOf(res, "geographic_proximity", p)
        age   == AgeScore(res, p)
        valid == Validate(g, lang)
        base  == [total_score          |-> TotalScore(valid, a, d),
                  academic_score       |-> a,
                  gender_score         |-> g,
                  language_score       |-> lang,
                  distance_score       |-> d,
                  age_difference_score |-> age,
                  valid                |-> valid]
        forced == IF InManualList(p, mm) THEN ApplyManualMatch(base) ELSE base
    IN  IF InManualList(p, mnm) THEN ApplyManualNonMatch(forced) ELSE forced

---------------------------------------------------------------------------
(* Assignment: perform_matching *)

\* [... for p, data in combined.items() if data["valid"]]
ValidPairs(c, ord) == SelectSeq(ord, LAMBDA k : c[k].valid)

RemoveAt(s, i) == [j \in 1..(Len(s) - 1) |-> IF j < i THEN s[j] ELSE s[j + 1]]

\* the sort without reverse=True: ascending total_score
RECURSIVE SortedPairsAscending(_, _)
SortedPairsAscending(c, s) ==
    IF s = <<>> THEN <<>>
    ELSE LET i == CHOOSE i \in 1..Len(s) :
                    /\ \A j \in 1..Len(s) :
                          c[s[j]].total_score >= c[s[i]].total_score
                    /\ \A j \in 1..(i - 1) :
                          c[s[j]].total_score > c[s[i]].total_score
         IN  <<s[i]>> \o SortedPairsAscending(c, RemoveAt(s, i))

\* no sort at all: the valid pairs in their enumeration order
SortedPairsUnsorted(c, s) == s

\* sorted(valid_pairs, key=lambda x: x[3], reverse=True): stable, so pairs of
\* equal total_score keep their enumeration order
RECURSIVE SortedPairs(_, _)
SortedPairs(c, s) ==
    IF s = <<>> THEN <<>>
    ELSE LET i == CHOOSE i \in 1..Len(s) :
                    /\ \A j \in 1..Len(s) :
                          c[s[j]].total_score <= c[s[i]].total_score
                    /\ \A j \in 1..(i - 1) :
                          c[s[j]].total_score < c[s[i]].total_score
         IN  <<s[i]>> \o SortedPairs(c, RemoveAt(s, i))

\* the check with its mentor half dropped
BothFreeMenteeOnly(p, st) == MenteeOf(p) \notin st.mentees

\* mentee not in matched_mentees and mentor not in matched_mentors
BothFree(p, st) ==
    MenteeOf(p) \notin st.mentees /\ MentorOf(p) \notin st.mentors

Select(p, st) ==
    [sel     |-> Append(st.sel, p),
     mentees |-> st.mentees \cup {MenteeOf(p)},
     mentors |-> st.mentors \cup {MentorOf(p)}]

\* the walk left at the first pair that is not free (break instead of skip)
RECURSIVE FirstPassStopsAtConflict(_, _, _)
FirstPassStopsAtConflict(sorted, i, st) ==
    IF i > Len(sorted) THEN st
    ELSE IF BothFree(sorted[i], st)
         THEN FirstPassStopsAtConflict(sorted, i + 1, Select(sorted[i], st))
         ELSE st

\* first pass: walk the sorted valid pairs
RECURSIVE FirstPass(_, _, _)
FirstPass(sorted, i, st) ==
    IF i > Len(sorted) THEN st
    ELSE FirstPass(sorted, i + 1,
                   IF BothFree(sorted[i], st) THEN Select(sorted[i], st) ELSE st)

\* the inner loop started from best_score = 0 instead of -1
RECURSIVE BestPairFromZero(_, _, _, _, _)
BestPairFromZero(c, ord, i, cands, best) ==
    IF i > Len(ord) THEN best
    ELSE LET k == ord[i]
             best_score == IF best = None THEN 0 ELSE c[best].total_score
         IN  BestPairFromZero(c, ord, i + 1, cands,
                              IF k \in cands /\ c[k].total_score > best_score
                              THEN k ELSE best)

\* the inner loop of a repair pass over combined.items(): the first candidate
\* whose total_score exceeds every earlier one and the initial best_score
RECURSIVE BestPair(_, _, _, _, _)
BestPair(c, ord, i, cands, best) ==
    IF i > Len(ord) THEN best
    ELSE LET k == ord[i]
             best_score == IF best = None THEN InitialBestScore
                           ELSE c[best].total_score
         IN  BestPair(c, ord, i + 1, cands,
                      IF k \in cands /\ c[k].total_score > best_score
                      THEN k ELSE best)

\* the candidates without the test that the mentor is free
MenteeCandidatesAnyMentor(c, mentee, st) ==
    {k \in DOMAIN c : MenteeOf(k) = mentee}

\* m == mentee and n not in matched_mentors
MenteeCandidates(c, mentee, st) ==
    {k \in DOMAIN c : MenteeOf(k) = mentee /\ MentorOf(k) \notin st.mentors}

\* n == mentor and m not in matched_mentees
MentorCandidates(c, mentor, st) ==
    {k \in DOMAIN c : MentorOf(k) = mentor /\ MenteeOf(k) \notin st.mentees}

\* the second pass left out
SecondPassSkipped(c, ord, todo, i, st) == st

\* second pass: for mentee in all_mentees - matched_mentees
RECURSIVE SecondPass(_, _, _, _, _)
SecondPass(c, ord, todo, i, st) ==
    IF i > Len(todo) THEN st
    ELSE LET best == BestPair(c, ord, 1, MenteeCandidates(c, todo[i], st), None)
         IN  SecondPass(c, ord, todo, i + 1,
                        IF best # None THEN Select(best, st) ELSE st)

\* third pass: for mentor in all_mentors - matched_mentors
RECURSIVE ThirdPass(_, _, _, _, _)
ThirdPass(c, ord, todo, i, st) ==
    IF i > Len(todo) THEN st
    ELSE LET best == BestPair(c, ord, 1, MentorCandidates(c, todo[i], st), None)
         IN  ThirdPass(c, ord, todo, i + 1,
                       IF best # None THEN Select(best, st) ELSE st)

AllMentees(c) == {MenteeOf(k) : k \in DOMAIN c}
AllMentors(c) == {MentorOf(k) : k \in DOMAIN c}

MatchState == [sel |-> selected_pairs, mentees |-> matched_mentees,
               mentors |-> matched_mentors]

---------------------------------------------------------------------------
(* Inputs *)

\* criterion scores of one pair: plain scores, one criterion disqualifying
\* (gender, age, distance), no common language, every criterion disqualifying
ScoreRows ==
    { [gender |-> 1000, languages |-> 900, academia |-> 1000,
       geographic_proximity |-> 1000, age_difference |-> 1000],
      [gender |-> 500, languages |-> 900, academia |-> 0,
       geographic_proximity |-> 1000, age_difference |-> 1000],
      [gender |-> NegInf, languages |-> 900, academia |-> 1000,
       geographic_proximity |-> 1000, age_difference |-> 1000],
      [gender |-> 1000, languages |-> 900, academia |-> 1000,
       geographic_proximity |-> 1000, age_difference |-> NegInf],
      [gender |-> 1000, languages |-> 900, academia |-> 1000,
       geographic_proximity |-> NegInf, age_difference |-> 1000],
      [gender |-> 1000, languages |-> 0, academia |-> 1000,
       geographic_proximity |-> 1000, age_difference |-> 1000],
      [gender |-> NegInf, languages |-> NegInf, academia |-> NegInf,
       geographic_proximity |-> NegInf, age_difference |-> NegInf] }

\* manual entries: "x-y" over the ids in use, and one entry without a dash
ManualEntries == ((Mentees \cup Mentors) \X (Mentees \cup Mentors)) \cup {<<0>>}

\* records perform_matching is handed by combine_scores and by the aggregation
SolverRecords ==
    { [total_score |-> 0, valid |-> FALSE],
      [total_score |-> NegInf, valid |-> FALSE],
      [total_score |-> NegInf, valid |-> TRUE],
      [total_score |-> 300, valid |-> TRUE],
      [total_score |-> 1000, valid |-> TRUE],
      [total_score |-> PosInf, valid |-> TRUE] }

Untouched ==
    /\ selected_pairs = <<>>
    /\ matched_mentees = {}
    /\ matched_mentors = {}
    /\ n_first = 0
    /\ n_second = 0
    /\ all_pairs = <<>>

NoException == [kind |-> "none", status_code |-> 0]

\* no request is being handled
NoRequest ==
    /\ request = <<>>
    /\ data_dir_complete = TRUE
    /\ csv_inputs = "none"
    /\ raised = NoException
    /\ status = 0

\* no call of geographic_proximity.py is in progress
NoCall == [at |-> "idle", calls |-> 0]

\* geographic_proximity.py imported with no cache file on disk and no
\* OPEN_CAGE_DATA key, before any call
ProvidersIdle ==
    /\ now = 0
    /\ _ors_request_times = <<>>
    /\ recorded_requests = <<>>
    /\ slept = 0
    /\ _location_cache = <<>>
    /\ _distance_cache = <<>>
    /\ _open_cage_geolocator = FALSE
    /\ geocoding = NoCall
    /\ routing = NoCall
    /\ answers = <<>>

\* entry of compute_final_matches_from_data
Init ==
    /\ \E rows \in [Pairs -> ScoreRows] :
          results = [c \in Criteria |-> [p \in Pairs |-> rows[p][c]]]
    /\ manual_matches \in SUBSET ManualEntries
    /\ manual_non_matches \in SUBSET ManualEntries
    /\ Cardinality(manual_matches) + Cardinality(manual_non_matches) <= MaxManual
    /\ combined = <<>>
    /\ order = <<>>
    /\ Untouched
    /\ ProvidersIdle
    /\ NoRequest
    /\ pc = "start"

\* a cohort one larger than the other, every pair valid, no two scores equal
ManyMentees == 1..(NumMentors + 1)
DistinctScores == {100 * i : i \in 1..(Cardinality(ManyMentees) * NumMentors)}

InitDistinct ==
    /\ results = <<>>
    /\ manual_matches = {}
    /\ manual_non_matches = {}
    /\ \E score \in [ManyMentees \X Mentors -> DistinctScores] :
          /\ \A p, q \in DOMAIN score : p # q => score[p] # score[q]
          /\ combined = [p \in DOMAIN score |->
                           [total_score |-> score[p], valid |-> TRUE]]
    /\ order \in SetOrders(DOMAIN combined)
    /\ Untouched
    /\ ProvidersIdle
    /\ NoRequest
    /\ pc = "combined"

\* key sets of a criterion map: every pair, every pair but one, none
SparseKeySets == {Pairs, {}} \cup {Pairs \ {p} : p \in Pairs}

\* criterion scores of one pair in a sparse input
SparseRows ==
    { [gender |-> 1000, languages |-> 900, academia |-> 1000,
       geographic_proximity |-> 1000, age_difference |-> 1000],
      [gender |-> 0, languages |-> 900, academia |-> 500,
       geographic_proximity |-> 500, age_difference |-> 500] }

\* entry of compute_final_matches_from_data with criteria that are absent from
\* results, or whose map is empty or lacks a pair
InitSparse ==
    /\ \E present \in SUBSET Criteria :
          \E keys \in [present -> SparseKeySets] :
             \E rows \in [Pairs -> SparseRows] :
                results = [c \in present |-> [p \in keys[c] |-> rows[p][c]]]
    /\ manual_matches = {}
    /\ manual_non_matches = {}
    /\ combined = <<>>
    /\ order = <<>>
    /\ Untouched
    /\ ProvidersIdle
    /\ NoRequest
    /\ pc = "start"

\* entry of perform_matching on a record set
InitSolver ==
    /\ results = <<>>
    /\ manual_matches = {}
    /\ manual_non_matches = {}
    /\ \E keys \in SUBSET Pairs : combined \in [keys -> SolverRecords]
    /\ order \in Enumerations(DOMAIN combined)
    /\ Untouched
    /\ ProvidersIdle
    /\ NoRequest
    /\ pc = "combined"

---------------------------------------------------------------------------
(* POST /matching: backend/main.py, compute_matching *)

UploadFields == {"mentor_application_file", "mentor_interview_file",
                 "mentee_application_file", "mentee_interview_file"}

\* an upload field: not sent (None), sent with no content, sent with CSV
\* content that loads and merges, sent with content that does not
UploadKinds == {"absent", "empty", "csv", "malformed"}

\* a JSON form field: not sent, a JSON text, a text json.loads rejects
JsonKinds == {"absent", "json", "invalid"}

\* the CSV paths of a JSON body (MatchingRequest): none, files that exist,
\* files that do not exist
NamedCsvKinds == {"none", "existing", "missing"}

\* a request carries a multipart form, or a JSON body and then no form field
Requests ==
    {r \in [files                     : [UploadFields -> UploadKinds],
            named_csv                 : NamedCsvKinds,
            importance_modifiers_json : JsonKinds,
            manual_matches_json       : JsonKinds,
            manual_non_matches_json   : JsonKinds] :
        r.named_csv # "none" =>
            /\ \A f \in UploadFields : r.files[f] = "absent"
            /\ r.importance_modifiers_json = "absent"
            /\ r.manual_matches_json = "absent"
            /\ r.manual_non_matches_json = "absent"}

HTTPException(code) == [kind |-> "HTTPException", status_code |-> code]

Raise(kind) == [kind |-> kind, status_code |-> 0]

\* the four default files were found when the module was imported (lines
\* 26-37); the matching and solver variables play no part in the handler
InitEndpoint ==
    /\ results = <<>>
    /\ manual_matches = {}
    /\ manual_non_matches = {}
    /\ combined = <<>>
    /\ order = <<>>
    /\ Untouched
    /\ ProvidersIdle
    /\ request \in Requests
    /\ data_dir_complete = TRUE
    /\ csv_inputs = "none"
    /\ raised = NoException
    /\ status = 0
    /\ pc = "received"

matching_vars == <<results, manual_matches, manual_non_matches, combined, order,
                   selected_pairs, matched_mentees, matched_mentors, n_first,
                   n_second, all_pairs>>

\* a default file is removed from DATA_DIR while the server runs
RemoveDefaultFile ==
    /\ pc \in {"received", "resolved", "modifiers", "manual_matches", "manual_non_matches"}
    /\ data_dir_complete
    /\ data_dir_complete' = FALSE
    /\ UNCHANGED <<geo_vars, matching_vars, pc, request, csv_inputs, raised, status>>

\* lines 351-380: the uploads when all four were sent, else the default files
ResolveInputs ==
    /\ pc = "received"
    /\ IF \E f \in UploadFields : request.files[f] = "absent"
       THEN IF ~data_dir_complete
            THEN /\ raised' = HTTPException(400)
                 /\ pc' = "raised"
                 /\ UNCHANGED csv_inputs
            ELSE /\ csv_inputs' = "defaults"
                 /\ pc' = "resolved"
                 /\ UNCHANGED raised
       ELSE IF \E f \in UploadFields : request.files[f] = "empty"
            THEN /\ raised' = HTTPException(400)
                 /\ pc' = "raised"
                 /\ UNCHANGED csv_inputs
            ELSE /\ csv_inputs' = "uploads"
                 /\ pc' = "resolved"
                 /\ UNCHANGED raised
    /\ UNCHANGED <<geo_vars, matching_vars, request, data_dir_complete, status>>

\* lines 382-390: json.loads inside try/except json.JSONDecodeError
ParseImportanceModifiers ==
    /\ pc = "resolved"
    /\ IF request.importance_modifiers_json = "invalid"
       THEN raised' = HTTPException(400) /\ pc' = "raised"
       ELSE raised' = raised /\ pc' = "modifiers"
    /\ UNCHANGED <<geo_vars, matching_vars, request, data_dir_complete, csv_inputs, status>>

\* lines 396-402: json.loads inside try/except json.JSONDecodeError
ParseManualMatches ==
    /\ pc = "modifiers"
    /\ IF request.manual_matches_json = "invalid"
       THEN raised' = HTTPException(400) /\ pc' = "raised"
       ELSE raised' = raised /\ pc' = "manual_matches"
    /\ UNCHANGED <<geo_vars, matching_vars, request, data_dir_complete, csv_inputs, status>>

\* lines 403-409: json.loads inside try/except json.JSONDecodeError
ParseManualNonMatches ==
    /\ pc = "manual_matches"
    /\ IF request.manual_non_matches_json = "invalid"
       THEN raised' = HTTPException(400) /\ pc' = "raised"
       ELSE raised' = raised /\ pc' = "manual_non_matches"
    /\ UNCHANGED <<geo_vars, matching_vars, request, data_dir_complete, csv_inputs, status>>

\* what run_all_categories_from_data and compute_final_matches_from_data can
\* end with: a default path that is gone raises FileNotFoundError (_load_csv),
\* content pandas cannot parse a ValueError, content without the expected
\* columns or a failing category computation another exception
RunOutcomes ==
    IF csv_inputs = "defaults"
    THEN IF data_dir_complete THEN {"ok", "Exception"} ELSE {"FileNotFoundError"}
    ELSE IF \E f \in UploadFields : request.files[f] = "malformed"
         THEN {"ValueError", "Exception"}
         ELSE {"ok", "Exception"}

\* lines 411-427
RunMatching ==
    /\ pc = "manual_non_matches"
    /\ \E outcome \in RunOutcomes :
          IF outcome = "ok"
          THEN raised' = raised /\ pc' = "computed"
          ELSE raised' = Raise(outcome) /\ pc' = "raised"
    /\ UNCHANGED <<geo_vars, matching_vars, request, data_dir_complete, csv_inputs, status>>

\* lines 429-438
ReturnScores ==
    /\ pc = "computed"
    /\ status' = 200
    /\ pc' = "responded"
    /\ UNCHANGED <<geo_vars, matching_vars, request, data_dir_complete, csv_inputs, raised>>

\* lines 440-445: the first except clause the exception is an instance of;
\* HTTPException is an Exception and has no clause of its own
ExceptClauses ==
    /\ pc = "raised"
    /\ status' = CASE raised.kind = "FileNotFoundError" -> 404
                   [] raised.kind = "ValueError" -> 400
                   [] OTHER -> 500
    /\ pc' = "responded"
    /\ UNCHANGED <<geo_vars, matching_vars, request, data_dir_complete, csv_inputs, raised>>

NextEndpoint ==
    \/ RemoveDefaultFile
    \/ ResolveInputs
    \/ ParseImportanceModifiers
    \/ ParseManualMatches
    \/ ParseManualNonMatches
    \/ RunMatching
    \/ ReturnScores
    \/ ExceptClauses

SpecEndpoint == InitEndpoint /\ [][NextEndpoint]_vars

---------------------------------------------------------------------------
(* Actions *)

\* lines 197-288: build combined, pair by pair, in the set's enumeration order
Combine ==
    /\ pc = "start"
    /\ combined' = [p \in AllPairKeys(results) |->
                      CombineRecord(results, manual_matches, manual_non_matches, p)]
    /\ order' \in SetOrders(AllPairKeys(results))
    /\ pc' = "combined"
    /\ UNCHANGED <<results, manual_matches, manual_non_matches, selected_pairs,
                   matched_mentees, matched_mentors, n_first, n_second, all_pairs>>
    /\ UNCHANGED endpoint_vars
    /\ UNCHANGED geo_vars

\* lines 70-87
PrimaryPass ==
    /\ pc = "combined"
    /\ LET st == FirstPass(SortedPairs(combined, ValidPairs(combined, order)), 1,
                           MatchState)
       IN  /\ selected_pairs' = st.sel
           /\ matched_mentees' = st.mentees
           /\ matched_mentors' = st.mentors
           /\ n_first' = Len(st.sel)
    /\ pc' = "first"
    /\ UNCHANGED <<results, manual_matches, manual_non_matches, combined, order,
                   n_second, all_pairs>>
    /\ UNCHANGED endpoint_vars
    /\ UNCHANGED geo_vars

\* lines 89-105; the unmatched mentees are visited in the set's iteration order
RepairMentees ==
    /\ pc = "first"
    /\ \E todo \in Enumerations(AllMentees(combined) \ matched_mentees) :
          LET st == SecondPass(combined, order, todo, 1, MatchState)
          IN  /\ selected_pairs' = st.sel
              /\ matched_mentees' = st.mentees
              /\ matched_mentors' = st.mentors
              /\ n_second' = Len(st.sel)
    /\ pc' = "second"
    /\ UNCHANGED <<results, manual_matches, manual_non_matches, combined, order,
                   n_first, all_pairs>>
    /\ UNCHANGED endpoint_vars
    /\ UNCHANGED geo_vars

\* lines 107-123
RepairMentors ==
    /\ pc = "second"
    /\ \E todo \in Enumerations(AllMentors(combined) \ matched_mentors) :
          LET st == ThirdPass(combined, order, todo, 1, MatchState)
          IN  /\ selected_pairs' = st.sel
              /\ matched_mentees' = st.mentees
              /\ matched_mentors' = st.mentors
    /\ pc' = "matched"
    /\ UNCHANGED <<results, manual_matches, manual_non_matches, combined, order,
                   n_first, n_second, all_pairs>>
    /\ UNCHANGED endpoint_vars
    /\ UNCHANGED geo_vars

\* the list of the matched pairs only, as the docstring's Returns section has it
ReturnMatchedPairs ==
    /\ pc = "matched"
    /\ all_pairs' = [i \in 1..Len(selected_pairs) |->
                       combined[selected_pairs[i]] @@
                       [mentor_id  |-> MentorOf(selected_pairs[i]),
                        mentee_id  |-> MenteeOf(selected_pairs[i]),
                        is_matched |-> TRUE]]
    /\ pc' = "done"
    /\ UNCHANGED <<results, manual_matches, manual_non_matches, combined, order,
                   selected_pairs, matched_mentees, matched_mentors, n_first,
                   n_second>>
    /\ UNCHANGED endpoint_vars
    /\ UNCHANGED geo_vars

\* lines 296-308: every record of combined, flagged
ReturnAllPairs ==
    /\ pc = "matched"
    /\ all_pairs' = [i \in 1..Len(order) |->
                       combined[order[i]] @@
                       [mentor_id  |-> MentorOf(order[i]),
                        mentee_id  |-> MenteeOf(order[i]),
                        is_matched |-> order[i] \in Range(selected_pairs)]]
    /\ pc' = "done"
    /\ UNCHANGED <<results, manual_matches, manual_non_matches, combined, order,
                   selected_pairs, matched_mentees, matched_mentors, n_first,
                   n_second>>
    /\ UNCHANGED endpoint_vars
    /\ UNCHANGED geo_vars

Next ==
    \/ Combine
    \/ PrimaryPass
    \/ RepairMentees
    \/ RepairMentors
    \/ ReturnAllPairs

NextSolver ==
    \/ PrimaryPass
    \/ RepairMentees
    \/ RepairMentors

Spec == Init /\ [][Next]_vars

SpecSolver == InitSolver /\ [][NextSolver]_vars

SpecSparse == InitSparse /\ [][Next]_vars

SpecDistinct == InitDistinct /\ [][NextSolver]_vars

---------------------------------------------------------------------------
(* model_dev/categories/geographic_proximity.py: the request log that     *)
(* limits OpenRouteService calls, _city_to_coords with the location cache *)
(* and _driving_distance_km with the distance cache.                      *)
(*                                                                        *)
(* time.time() and time.sleep() count seconds as floats; the model counts *)
(* tenths of a second, so that the 0.1 s buffer of line 51 is 1 and the   *)
(* back-off 0.5 * (attempt + 1) is 5 * (attempt + 1).                     *)

_ORS_RATE_LIMIT == 40

_ORS_RATE_WINDOW == 60

\* max_retries of _city_to_coords (line 213) and _driving_distance_km (298)
max_retries == 10

Seconds(s) == 10 * s

\* calls of _wait_for_rate_limit the model follows
MaxRequests == 42

\* seconds after which no time passes between two calls any more
MaxClock == 90

\* time between the return of one call and the entry of the next
Elapsed == {0, Seconds(30), Seconds(60) - 1}

\* how much longer than asked a time.sleep() lasts
Late == {0, 1}

core_vars == <<matching_vars, pc, endpoint_vars>>

\* lines 45-46 and 58-59: pop from the left while the head is a window old
RECURSIVE RemoveOld(_, _)
RemoveOld(times, current_time) ==
    IF times # <<>> /\ current_time - Head(times) >= Seconds(_ORS_RATE_WINDOW)
    THEN RemoveOld(Tail(times), current_time)
    ELSE times

\* a sleep that is interrupted at once
sleep_cut_short(wait_time, late) == 0

\* time.sleep(wait_time): the time the caller is suspended
sleep(wait_time, late) == wait_time + late

\* lines 40-62, entered when time.time() is current_time: the deque it
\* leaves, the time it returns at, and the time it slept
_wait_for_rate_limit(times, current_time, late) ==
    LET kept == RemoveOld(times, current_time)
        wait_time == IF Len(kept) >= _ORS_RATE_LIMIT
                     THEN Seconds(_ORS_RATE_WINDOW) - (current_time - Head(kept)) + 1
                     ELSE 0
        asleep == IF wait_time > 0 THEN sleep(wait_time, late) ELSE 0
        woken == current_time + asleep
        cleaned == IF wait_time > 0 THEN RemoveOld(kept, woken) ELSE kept
    IN  [times |-> Append(cleaned, woken), now |-> woken, slept |-> asleep]

\* one caller calls _wait_for_rate_limit
CallWaitForRateLimit ==
    /\ Len(recorded_requests) < MaxRequests
    /\ \E elapsed \in Elapsed, late \in Late :
          /\ now + elapsed <= Seconds(MaxClock)
          /\ LET limited == _wait_for_rate_limit(_ors_request_times,
                                                 now + elapsed, late)
             IN  /\ _ors_request_times' = limited.times
                 /\ now' = limited.now
                 /\ slept' = limited.slept
                 /\ recorded_requests' = Append(recorded_requests, limited.now)
    /\ UNCHANGED <<_location_cache, _distance_cache, _open_cage_geolocator,
                   geocoding, routing, answers>>
    /\ UNCHANGED core_vars

\* the module imported; the matching and endpoint variables play no part
InitRateLimit ==
    /\ results = <<>>
    /\ manual_matches = {}
    /\ manual_non_matches = {}
    /\ combined = <<>>
    /\ order = <<>>
    /\ Untouched
    /\ ProvidersIdle
    /\ NoRequest
    /\ pc = "start"

NextRateLimit ==
    \/ CallWaitForRateLimit

SpecRateLimit == InitRateLimit /\ [][NextRateLimit]_vars

---------------------------------------------------------------------------
(* _city_to_coords: lines 187-275.  A location string is the sequence of  *)
(* its characters; the argument is a str (geographic_proximity_results    *)
(* passes "" for a missing cell, lines 596 and 605).                      *)

\* calls of _city_to_coords the model follows
MaxCalls == 2

Whitespace == {" "}

LocationStrings ==
    { <<>>, <<" ">>, <<"B">>, <<" ", "B">>, <<"B", " ">>, <<"Z">> }

\* (longitude, latitude) in degrees
Coords == { <<0, 0>>, <<1, 0>> }

RECURSIVE lstrip(_)
lstrip(s) ==
    IF s # <<>> /\ Head(s) \in Whitespace THEN lstrip(Tail(s)) ELSE s

RECURSIVE rstrip(_)
rstrip(s) ==
    IF s # <<>> /\ s[Len(s)] \in Whitespace
    THEN rstrip(SubSeq(s, 1, Len(s) - 1))
    ELSE s

\* str.strip()
strip(s) == rstrip(lstrip(s))

\* a geocode() request returns a location, returns None, or raises
GeocodeOutcomes == {"location", "nothing", "raises"}

\* lines 215-247, one pass through the try block: the two Nominatim requests,
\* then the two OpenCage requests when that geocoder exists; whether a
\* location came back, and how many requests were issued
TryGeocoders(n1, n2, o1, o2) ==
    IF n1 = "raises" THEN [found |-> FALSE, requests |-> 1]
    ELSE IF n1 = "location" THEN [found |-> TRUE, requests |-> 1]
    ELSE IF n2 = "raises" THEN [found |-> FALSE, requests |-> 2]
    ELSE IF n2 = "location" THEN [found |-> TRUE, requests |-> 2]
    ELSE IF ~_open_cage_geolocator THEN [found |-> FALSE, requests |-> 2]
    ELSE IF o1 = "raises" THEN [found |-> FALSE, requests |-> 3]
    ELSE IF o1 = "location" THEN [found |-> TRUE, requests |-> 3]
    ELSE [found |-> o2 = "location", requests |-> 4]

\* a failed geocoding that leaves no trace in the cache
CacheFailureForgotten(cache, location_str) == cache

\* lines 258 and 271: _location_cache[location_str] = None
CacheFailure(cache, location_str) == (location_str :> None) @@ cache

\* lines 227 and 243: _location_cache[location_str] = coords
CacheCoords(cache, location_str, coords) == (location_str :> coords) @@ cache

\* what a call returned, kept per argument
Answered(call) ==
    (call.location_str :> [coords |-> call.result, attempts |-> call.attempts])
        @@ answers

\* lines 193-211: the early returns and the cache lookup
CityToCoords ==
    /\ geocoding.at \in {"idle", "returned"}
    /\ geocoding.calls < MaxCalls
    /\ \E location_str \in LocationStrings :
          LET stripped == strip(location_str)
              call == [at           |-> "loop",
                       calls        |-> geocoding.calls + 1,
                       location_str |-> location_str,
                       stripped     |-> stripped,
                       attempt      |-> 0,
                       attempts     |-> 0,
                       requests     |-> 0,
                       result       |-> None,
                       before       |-> IF location_str \in DOMAIN answers
                                        THEN <<answers[location_str]>>
                                        ELSE <<>>]
              cached == [call EXCEPT !.at = "returned",
                                     !.result = _location_cache[stripped]]
          IN  IF location_str = <<>> \/ stripped = <<>>
              THEN /\ geocoding' = [call EXCEPT !.at = "returned"]
                   /\ answers' = Answered(call)
              ELSE IF stripped \in DOMAIN _location_cache
              THEN /\ geocoding' = cached
                   /\ answers' = Answered(cached)
              ELSE /\ geocoding' = call
                   /\ answers' = answers
    /\ UNCHANGED <<now, _ors_request_times, recorded_requests, slept,
                   _location_cache, _distance_cache, _open_cage_geolocator,
                   routing>>
    /\ UNCHANGED core_vars

\* what one pass through the try block can end with
Tries ==
    {TryGeocoders(n1, n2, o1, o2) : n1, n2, o1, o2 \in GeocodeOutcomes}

\* lines 214-273: one iteration of the retry loop
GeocodeAttempt ==
    /\ geocoding.at = "loop"
    /\ \E tried \in Tries :
          LET call == [geocoding EXCEPT
                          !.attempts = geocoding.attempt + 1,
                          !.requests = geocoding.requests + tried.requests]
              failed == [call EXCEPT !.at = "returned", !.result = None]
          IN  IF tried.found
              THEN \E coords \in Coords :
                      LET found == [call EXCEPT !.at = "returned",
                                                !.result = coords]
                      IN  /\ _location_cache' =
                                 CacheCoords(_location_cache, call.stripped, coords)
                          /\ geocoding' = found
                          /\ answers' = Answered(found)
                          /\ now' = now
              ELSE IF geocoding.attempt < max_retries - 1
              THEN \E late \in Late :
                      /\ now' = now + sleep(5 * (geocoding.attempt + 1), late)
                      /\ geocoding' = [call EXCEPT !.attempt = geocoding.attempt + 1]
                      /\ UNCHANGED <<_location_cache, answers>>
              ELSE /\ _location_cache' =
                          CacheFailure(_location_cache, call.stripped)
                   /\ geocoding' = failed
                   /\ answers' = Answered(failed)
                   /\ now' = now
    /\ UNCHANGED <<_ors_request_times, recorded_requests, slept, _distance_cache,
                   _open_cage_geolocator, routing>>
    /\ UNCHANGED core_vars

\* location_mappings.json as _load_cache can find it (lines 87-101)
LoadedLocations ==
    { <<>>, (<<"B">> :> <<0, 0>>), (<<"Z">> :> None) }

\* the module imported, with or without an OPEN_CAGE_DATA key (lines 175-184)
InitGeocode ==
    /\ results = <<>>
    /\ manual_matches = {}
    /\ manual_non_matches = {}
    /\ combined = <<>>
    /\ order = <<>>
    /\ Untouched
    /\ NoRequest
    /\ pc = "start"
    /\ now = 0
    /\ _ors_request_times = <<>>
    /\ recorded_requests = <<>>
    /\ slept = 0
    /\ _location_cache \in LoadedLocations
    /\ _distance_cache = <<>>
    /\ _open_cage_geolocator \in BOOLEAN
    /\ geocoding = NoCall
    /\ routing = NoCall
    /\ answers = <<>>

NextGeocode ==
    \/ CityToCoords
    \/ GeocodeAttempt

SpecGeocode == InitGeocode /\ [][NextGeocode]_vars

---------------------------------------------------------------------------
(* _driving_distance_km: lines 278-549.  Coordinates are whole degrees on *)
(* the equator, distances whole kilometres; a returned float d is <<d>>,  *)
(* a returned None is None.                                               *)

\* calls of _driving_distance_km the model follows
MaxRoutingCalls == 1

\* sorted([coords1, coords2]): tuples compare field by field
CoordsBefore(a, b) == a[1] < b[1] \/ (a[1] = b[1] /\ a[2] <= b[2])

\* lines 139-142; whole degrees print exactly with six decimals
_cache_key_for_coords(coords1, coords2) ==
    IF CoordsBefore(coords1, coords2)
    THEN <<coords1, coords2>>
    ELSE <<coords2, coords1>>

Abs(x) == IF x < 0 THEN -x ELSE x

\* lines 145-171 for two points of latitude 0: the arc of the equator
\* between them, 6371 * pi / 180 = 111 km for each degree of longitude
_haversine_distance_km(coords1, coords2) == 111 * Abs(coords1[1] - coords2[1])

\* summary["distance"] of a route, in metres
RouteMetres == {0, 120000, 150000}

\* HTTP status of a failed directions call, 0 when the exception carries none
StatusCodes == {0, 401, 403, 429, 500}

\* ors_client.directions(): a route with a distance, a response that lacks
\* one of the parts lines 323-399 look for, or an exception
Responses ==
    [kind : {"route"}, metres : RouteMetres, status_code : {0}]
        \cup [kind : {"malformed"}, metres : {0}, status_code : {0}]
        \cup [kind : {"raises"}, metres : {0}, status_code : StatusCodes]

\* lines 292-309: the early returns and the cache lookup
DrivingDistanceKm ==
    /\ routing.at \in {"idle", "returned"}
    /\ routing.calls < MaxRoutingCalls
    /\ \E coords1, coords2 \in Coords \cup {None}, ors_client \in BOOLEAN :
          LET call == [at                   |-> "loop",
                       calls                |-> routing.calls + 1,
                       coords1              |-> coords1,
                       coords2              |-> coords2,
                       ors_client           |-> ors_client,
                       attempt              |-> 0,
                       attempts             |-> 0,
                       consecutive_failures |-> 0,
                       result               |-> None]
              cache_key == _cache_key_for_coords(coords1, coords2)
          IN  IF coords1 = None \/ coords2 = None
              THEN routing' = [call EXCEPT !.at = "returned"]
              ELSE IF ~ors_client
              THEN routing' = [call EXCEPT !.at = "returned"]
              ELSE IF cache_key \in DOMAIN _distance_cache
              THEN routing' = [call EXCEPT !.at = "returned",
                                           !.result = <<_distance_cache[cache_key]>>]
              ELSE routing' = call
    /\ UNCHANGED <<now, _ors_request_times, recorded_requests, slept,
                   _location_cache, _distance_cache, _open_cage_geolocator,
                   geocoding, answers>>
    /\ UNCHANGED core_vars

\* lines 311-547: one iteration of the retry loop, the rate limit wait first
RoutingAttempt ==
    /\ routing.at = "loop"
    /\ \E response \in Responses, late \in Late :
          LET limited == _wait_for_rate_limit(_ors_request_times, now, late)
              cache_key == _cache_key_for_coords(routing.coords1, routing.coords2)
              haversine == _haversine_distance_km(routing.coords1, routing.coords2)
              failures == routing.consecutive_failures + 1
              call == [routing EXCEPT !.attempts = routing.attempt + 1]
              wait_time == IF failures >= 3
                           THEN Seconds(60)
                           ELSE 5 * (routing.attempt + 1)
          IN  /\ _ors_request_times' = limited.times
              /\ recorded_requests' = Append(recorded_requests, limited.now)
              /\ slept' = limited.slept
              /\ CASE response.kind = "route" ->
                        /\ _distance_cache' =
                              (cache_key :> response.metres \div 1000)
                                  @@ _distance_cache
                        /\ routing' = [call EXCEPT
                                          !.at = "returned",
                                          !.consecutive_failures = 0,
                                          !.result = <<response.metres \div 1000>>]
                        /\ now' = limited.now
                   [] response.kind = "malformed" ->
                        /\ _distance_cache' = (cache_key :> haversine) @@ _distance_cache
                        /\ routing' = [call EXCEPT !.at = "returned",
                                                   !.result = <<haversine>>]
                        /\ now' = limited.now
                   [] response.kind = "raises" ->
                        IF routing.attempt = max_retries - 1
                        THEN /\ _distance_cache' =
                                    (cache_key :> haversine) @@ _distance_cache
                             /\ routing' = [call EXCEPT
                                               !.at = "returned",
                                               !.consecutive_failures = failures,
                                               !.result = <<haversine>>]
                             /\ now' = limited.now
                        ELSE IF \/ response.status_code \in {401, 403}
                                \/ response.status_code = 429 /\ failures >= 3
                        THEN /\ routing' = [call EXCEPT
                                               !.at = "returned",
                                               !.consecutive_failures = failures,
                                               !.result = None]
                             /\ now' = limited.now
                             /\ UNCHANGED _distance_cache
                        ELSE /\ routing' = [call EXCEPT
                                               !.attempt = routing.attempt + 1,
                                               !.consecutive_failures = failures]
                             /\ now' = limited.now + sleep(wait_time, late)
                             /\ UNCHANGED _distance_cache
    /\ UNCHANGED <<_location_cache, _open_cage_geolocator, geocoding, answers>>
    /\ UNCHANGED core_vars

\* distances.json as _load_cache can find it (lines 104-113)
LoadedDistances ==
    { <<>>, (<<(<<0, 0>>), (<<1, 0>>)>> :> 120) }

\* the module imported
InitRouting ==
    /\ results = <<>>
    /\ manual_matches = {}
    /\ manual_non_matches = {}
    /\ combined = <<>>
    /\ order = <<>>
    /\ Untouched
    /\ NoRequest
    /\ pc = "start"
    /\ now = 0
    /\ _ors_request_times = <<>>
    /\ recorded_requests = <<>>
    /\ slept = 0
    /\ _location_cache = <<>>
    /\ _distance_cache \in LoadedDistances
    /\ _open_cage_geolocator = FALSE
    /\ geocoding = NoCall
    /\ routing = NoCall
    /\ answers = <<>>

NextRouting ==
    \/ DrivingDistanceKm
    \/ RoutingAttempt

SpecRouting == InitRouting /\ [][NextRouting]_vars

---------------------------------------------------------------------------
(* Vocabulary of the properties *)

\* an entry of the list names the pair, in either id order
Listed(p, manual_list) ==
    \E e \in manual_list : e = p \/ e = <<MentorOf(p), MenteeOf(p)>>

\* the pair a returned record is about
KeyOf(rec) == <<rec.mentee_id, rec.mentor_id>>

Forced(p) == Listed(p, manual_matches) /\ ~Listed(p, manual_non_matches)

SelectedSet == Range(selected_pairs)
SelectedMentees == {MenteeOf(k) : k \in SelectedSet}
SelectedMentors == {MentorOf(k) : k \in SelectedSet}

Returned == pc = "matched"

Min(a, b) == IF a <= b THEN a ELSE b

Ascending(S) ==
    CHOOSE s \in Enumerations(S) : \A i, j \in DOMAIN s : i < j => s[i] < s[j]

NothingMatched == [sel |-> <<>>, mentees |-> {}, mentors |-> {}]

\* the first pass with equal scores taken in ascending key order
KeyOrderFirstPass(c) ==
    FirstPass(SortedPairs(c, ValidPairs(c, KeyOrder(DOMAIN c))), 1, NothingMatched)

\* all three passes with every enumeration taken in ascending order
KeyOrderAssignment(c) ==
    LET ord == KeyOrder(DOMAIN c)
        s1  == KeyOrderFirstPass(c)
        s2  == SecondPass(c, ord, Ascending(AllMentees(c) \ s1.mentees), 1, s1)
        s3  == ThirdPass(c, ord, Ascending(AllMentors(c) \ s2.mentors), 1, s2)
    IN  s3.sel

\* the valid pairs hold a matching that reaches every mentee and every mentor
HasPerfectMatching(c) ==
    \E f \in [AllMentees(c) -> AllMentors(c)] :
        /\ \A m1, m2 \in AllMentees(c) : m1 # m2 => f[m1] # f[m2]
        /\ \A n \in AllMentors(c) : \E m \in AllMentees(c) : f[m] = n
        /\ \A m \in AllMentees(c) :
              <<m, f[m]>> \in DOMAIN c /\ c[<<m, f[m]>>].valid

Unmatched == AllMentees(combined) \ SelectedMentees

\* the highest total_score over a mentee's pairs
BestScoreOf(m) ==
    CHOOSE b \in {combined[k].total_score : k \in {q \in DOMAIN combined : MenteeOf(q) = m}} :
        \A k \in DOMAIN combined : MenteeOf(k) = m => combined[k].total_score <= b

---------------------------------------------------------------------------
(* Properties *)

\* C1: perform_matching never selects a pair whose record has valid = false,
\* in any of its three passes.
C1_OnlyValidPairsSelected ==
    \A k \in SelectedSet : combined[k].valid

\* C2: in the list perform_matching builds, no mentee id and no mentor id
\* occurs in two selected pairs, and the list is no longer than the smaller
\* cohort.
C2_OneToOne ==
    /\ \A i, j \in DOMAIN selected_pairs :
          i # j => /\ MenteeOf(selected_pairs[i]) # MenteeOf(selected_pairs[j])
                   /\ MentorOf(selected_pairs[i]) # MentorOf(selected_pairs[j])
    /\ Len(selected_pairs) <=
          Min(Cardinality(AllMentees(combined)), Cardinality(AllMentors(combined)))

\* C2 witness: a returned assignment of two pairs, one of them added by a
\* repair pass.
C2_Witness ==
    /\ Returned
    /\ Len(selected_pairs) = 2
    /\ n_first = 1

\* C3: a pair for which some criterion reports -inf and which no manual match
\* names is returned with valid = false and is_matched = false.
C3_DisqualifiedInvalidAndUnmatched ==
    pc = "done" =>
        \A i \in DOMAIN all_pairs :
            LET p == KeyOf(all_pairs[i])
            IN  (/\ \E c \in Criteria : results[c][p] = NegInf
                 /\ ~Listed(p, manual_matches))
                => (~all_pairs[i].valid /\ ~all_pairs[i].is_matched)

Contested(p) ==
    \E q \in DOMAIN combined :
        /\ q # p
        /\ Forced(q)
        /\ (MenteeOf(q) = MenteeOf(p) \/ MentorOf(q) = MentorOf(p))

C6_NonMatchNeverSelected ==
    /\ \A p \in DOMAIN combined :
          Listed(p, manual_non_matches) => p \notin SelectedSet
    /\ \A i \in DOMAIN all_pairs :
          Listed(KeyOf(all_pairs[i]), manual_non_matches) => ~all_pairs[i].is_matched

\* C6 witness: a pair named by both lists ends unselected with its mentee and
\* its mentor both still free.
C6_Witness ==
    /\ pc = "done"
    /\ \E i \in DOMAIN all_pairs :
          /\ Listed(KeyOf(all_pairs[i]), manual_non_matches)
          /\ Listed(KeyOf(all_pairs[i]), manual_matches)
          /\ ~all_pairs[i].is_matched
          /\ all_pairs[i].mentee_id \notin matched_mentees
          /\ all_pairs[i].mentor_id \notin matched_mentors

C8_PerfectMatchingCovered ==
    (Returned /\ HasPerfectMatching(combined)) =>
        /\ SelectedMentees = AllMentees(combined)
        /\ SelectedMentors = AllMentors(combined)

\* C9: the assignment depends on the records alone: pairs of equal
\* total_score are taken by ascending mentee id, then mentor id, whatever the
\* order in which the records are enumerated.
C9_EnumerationOrderIrrelevant ==
    /\ pc = "first" => SelectedSet = Range(KeyOrderFirstPass(combined).sel)
    /\ Returned => SelectedSet = Range(KeyOrderAssignment(combined))

\* C10 as stated: with one mentee more than mentors, all pairs valid and all
\* scores distinct, the one unmatched mentee is the one whose best score is
\* the lowest.
C10_LowestBestUnmatched ==
    Returned =>
        /\ Cardinality(Unmatched) = 1
        /\ \A u \in Unmatched :
              \A m \in AllMentees(combined) : BestScoreOf(u) <= BestScoreOf(m)

\* C10 amended: exactly one mentee is unmatched, and with every mentor its
\* score is lower than that of the pair selected for that mentor.
C10_UnmatchedOutscored ==
    Returned =>
        /\ Cardinality(Unmatched) = 1
        /\ \A u \in Unmatched :
              \A n \in AllMentors(combined) :
                  \E k \in SelectedSet :
                      /\ MentorOf(k) = n
                      /\ combined[k].total_score > combined[<<u, n>>].total_score

\* C10 witness: the unmatched mentee has a better best score than a matched one.
C10_Witness ==
    /\ Returned
    /\ \E u \in Unmatched :
          \E m \in SelectedMentees : BestScoreOf(m) < BestScoreOf(u)

\* C11: when the record set is empty, or every record in it has valid = false,
\* perform_matching returns the empty list.
C11_NoValidRecordEmptyAssignment ==
    (Returned /\ \A k \in DOMAIN combined : ~combined[k].valid)
        => selected_pairs = <<>>

\* C13: a pair for which some criterion reports -inf and which no manual match
\* names is returned with total_score = -inf.
C13_DisqualifiedScoresMinimal ==
    pc = "done" =>
        \A i \in DOMAIN all_pairs :
            LET p == KeyOf(all_pairs[i])
            IN  (/\ \E c \in Criteria : results[c][p] = NegInf
                 /\ ~Listed(p, manual_matches))
                => all_pairs[i].total_score = NegInf

\* no entry of either manual list names the pair
Unlisted(p) == ~Listed(p, manual_matches) /\ ~Listed(p, manual_non_matches)

\* C14: a pair that neither manual list names is returned with valid = true
\* exactly when its gender score and its language score are both positive,
\* whatever its academic, distance and age scores.
C14_ValidIsGenderAndLanguage ==
    pc = "done" =>
        \A i \in DOMAIN all_pairs :
            Unlisted(KeyOf(all_pairs[i])) =>
                (all_pairs[i].valid <=>
                    (results["gender"][KeyOf(all_pairs[i])] > 0
                     /\ results["languages"][KeyOf(all_pairs[i])] > 0))

\* C14 witness: an unlisted pair disqualified by age and one disqualified by
\* distance are returned valid, and one without a common language invalid.
C14_Witness ==
    /\ pc = "done"
    /\ \E i, j, k \in DOMAIN all_pairs :
          /\ Unlisted(KeyOf(all_pairs[i])) /\ Unlisted(KeyOf(all_pairs[j]))
          /\ Unlisted(KeyOf(all_pairs[k]))
          /\ all_pairs[i].age_difference_score = NegInf /\ all_pairs[i].valid
          /\ all_pairs[j].distance_score = NegInf /\ all_pairs[j].valid
          /\ all_pairs[k].language_score = 0 /\ all_pairs[k].gender_score > 0
          /\ ~all_pairs[k].valid

\* 0.7 * a + 0.3 * d over the floats: -inf as soon as one term is -inf
WeightedSum(a, d) ==
    IF a = NegInf \/ d = NegInf THEN NegInf ELSE (7 * a + 3 * d) \div 10

\* C15: a valid pair that neither manual list names is returned with
\* total_score = 0.7 * academic_score + 0.3 * distance_score; two such pairs
\* with the same academic and distance scores have the same total_score,
\* whatever their gender, language and age scores.
C15_TotalIsWeightedSum ==
    pc = "done" =>
        \A i, j \in DOMAIN all_pairs :
            (Unlisted(KeyOf(all_pairs[i])) /\ all_pairs[i].valid) =>
                /\ all_pairs[i].total_score =
                      WeightedSum(results["academia"][KeyOf(all_pairs[i])],
                                  results["geographic_proximity"][KeyOf(all_pairs[i])])
                /\ (/\ Unlisted(KeyOf(all_pairs[j])) /\ all_pairs[j].valid
                    /\ all_pairs[j].academic_score = all_pairs[i].academic_score
                    /\ all_pairs[j].distance_score = all_pairs[i].distance_score)
                   => all_pairs[j].total_score = all_pairs[i].total_score

\* C15 witness: two valid unlisted pairs with the same academic and distance
\* scores and different age scores, and one of total_score 0.3.
C15_Witness ==
    /\ pc = "done"
    /\ \E i, j, k \in DOMAIN all_pairs :
          /\ Unlisted(KeyOf(all_pairs[i])) /\ all_pairs[i].valid
          /\ Unlisted(KeyOf(all_pairs[j])) /\ all_pairs[j].valid
          /\ Unlisted(KeyOf(all_pairs[k])) /\ all_pairs[k].valid
          /\ all_pairs[i].academic_score = all_pairs[j].academic_score
          /\ all_pairs[i].distance_score = all_pairs[j].distance_score
          /\ all_pairs[i].age_difference_score # all_pairs[j].age_difference_score
          /\ all_pairs[i].total_score = 1000
          /\ all_pairs[k].gender_score = 500
          /\ all_pairs[k].total_score = 300

\* the record set holds every combination of as many mentees as mentors
FullGrid ==
    /\ DOMAIN combined = AllMentees(combined) \X AllMentors(combined)
    /\ Cardinality(AllMentees(combined)) = Cardinality(AllMentors(combined))

EveryoneMatched ==
    /\ SelectedMentees = AllMentees(combined)
    /\ SelectedMentors = AllMentors(combined)

RecordedPairs == {KeyOf(all_pairs[i]) : i \in DOMAIN all_pairs}

PresentIn(c, p) == c \in DOMAIN results /\ p \in DOMAIN results[c]

RequiredCriteria == Criteria \ {"age_difference"}

AgeMapEmpty ==
    "age_difference" \notin DOMAIN results \/ DOMAIN results["age_difference"] = {}

Parseable(manual_list) == {e \in manual_list : Len(e) = 2}

\* the records the aggregation builds from the parseable entries alone
CombinedFromParseable ==
    [p \in AllPairKeys(results) |->
        CombineRecord(results, Parseable(manual_matches),
                      Parseable(manual_non_matches), p)]

\* the assignments perform_matching can return for a record set enumerated in
\* a given order
Assignments(c, ord) ==
    LET s1 == FirstPass(SortedPairs(c, ValidPairs(c, ord)), 1, NothingMatched)
    IN  UNION {
          LET s2 == SecondPass(c, ord, t2, 1, s1)
          IN  {Range(ThirdPass(c, ord, t3, 1, s2).sel) :
                  t3 \in Enumerations(AllMentors(c) \ s2.mentors)}
          : t2 \in Enumerations(AllMentees(c) \ s1.mentees)}

\* C17: entries that are not of the form "<left_id>-<right_id>" change
\* nothing: the records (total_score, valid) are those built from the
\* parseable entries alone, and the is_matched flags are those of an assignment
\* of these records.
C17_MalformedEntryIgnored ==
    /\ pc # "start" => combined = CombinedFromParseable
    /\ pc = "done" =>
          /\ \A i \in DOMAIN all_pairs :
                /\ all_pairs[i].total_score =
                      CombinedFromParseable[KeyOf(all_pairs[i])].total_score
                /\ all_pairs[i].valid = CombinedFromParseable[KeyOf(all_pairs[i])].valid
          /\ \E sel \in Assignments(CombinedFromParseable, order) :
                \A i \in DOMAIN all_pairs :
                    all_pairs[i].is_matched <=> KeyOf(all_pairs[i]) \in sel

\* C17 witness: both lists hold an entry without a dash and nothing else; the
\* call returns, with a record whose scores put it at 0.3 and one left invalid.
C17_Witness ==
    /\ pc = "done"
    /\ manual_matches # {} /\ Parseable(manual_matches) = {}
    /\ manual_non_matches # {} /\ Parseable(manual_non_matches) = {}
    /\ \E i, j \in DOMAIN all_pairs :
          /\ all_pairs[i].total_score = 300 /\ all_pairs[i].is_matched
          /\ ~all_pairs[j].valid /\ all_pairs[j].total_score = 0

C20_MissingCsvAnswered404 ==
    (pc = "responded" /\ request.named_csv = "missing") => status = 404

SharesMember(p, q) == MenteeOf(p) = MenteeOf(q) \/ MentorOf(p) = MentorOf(q)

ValidKeys == {k \in DOMAIN combined : combined[k].valid}

\* C21: once the first pass has run, every valid pair that is not selected
\* shares its mentee or its mentor with a selected valid pair of greater or
\* equal total_score; no valid pair has both members unmatched, and a valid
\* pair that outscores every other valid pair is selected.
C21_UnselectedValidPairBlocked ==
    pc \in {"first", "second", "matched"} =>
        /\ \A k \in ValidKeys \ SelectedSet :
              \E q \in SelectedSet \cap ValidKeys :
                  /\ SharesMember(k, q)
                  /\ combined[q].total_score >= combined[k].total_score
        /\ \A k \in ValidKeys :
              MenteeOf(k) \in SelectedMentees \/ MentorOf(k) \in SelectedMentors
        /\ \A k \in ValidKeys :
              (\A q \in ValidKeys \ {k} :
                  combined[q].total_score < combined[k].total_score)
              => k \in SelectedSet

\* C21 witness: two valid pairs of the same mentee with different scores; the
\* better one is selected, the other one is not, and its mentor stays free.
C21_Witness ==
    /\ Returned
    /\ \E k \in ValidKeys \ SelectedSet :
          /\ MentorOf(k) \notin SelectedMentors
          /\ \E q \in SelectedSet \cap ValidKeys :
                /\ MenteeOf(q) = MenteeOf(k)
                /\ combined[q].total_score > combined[k].total_score

\* C22: the third pass selects nothing: the list returned is the list the
\* second pass left.
C22_ThirdPassSelectsNothing ==
    Returned => Len(selected_pairs) = n_second

\* C22 witness: the second pass has added a pair, and the third pass found a
\* mentor unmatched whose only free mentee has a record it cannot take.
C22_Witness ==
    /\ Returned
    /\ n_second > n_first
    /\ \E k \in DOMAIN combined :
          /\ MentorOf(k) \notin SelectedMentors
          /\ MenteeOf(k) \notin SelectedMentees

\* C23: every pair a repair pass has added has valid = false and a
\* total_score greater than -1.
C23_RepairAddsInvalidPairsOnly ==
    \A i \in DOMAIN selected_pairs :
        i > n_first /\ pc \in {"second", "matched"} =>
            /\ ~combined[selected_pairs[i]].valid
            /\ combined[selected_pairs[i]].total_score > InitialBestScore

\* C23 witness: the first pass selects a valid pair, a second valid pair is
\* blocked by it, and a repair pass adds an invalid pair of score 0.
C23_Witness ==
    /\ Returned
    /\ n_first = 1
    /\ Len(selected_pairs) = 2
    /\ combined[selected_pairs[2]].total_score = 0
    /\ ValidKeys \ SelectedSet # {}

\* an entry "x-y" read as mentor x with mentee y names the pair
NamedMentorFirst(p, manual_list) == <<MentorOf(p), MenteeOf(p)>> \in manual_list

\* the record computed from the criterion scores alone
ScoredRecord(p) == CombineRecord(results, {}, {}, p)

\* C24: an entry "x-y" of a manual list changes the record of mentor x with
\* mentee y only: a pair that no entry names in the order mentor-mentee is
\* returned with the total_score and valid computed from its scores.
C24_OverrideTouchesOnePair ==
    pc = "done" =>
        \A i \in DOMAIN all_pairs :
            LET p == KeyOf(all_pairs[i])
            IN  (/\ ~NamedMentorFirst(p, manual_matches)
                 /\ ~NamedMentorFirst(p, manual_non_matches))
                => /\ all_pairs[i].total_score = ScoredRecord(p).total_score
                   /\ all_pairs[i].valid = ScoredRecord(p).valid

\* one of the three JSON form fields holds a text that json.loads rejects
InvalidJsonSent ==
    \/ request.importance_modifiers_json = "invalid"
    \/ request.manual_matches_json = "invalid"
    \/ request.manual_non_matches_json = "invalid"

\* C25: a request with a JSON form field that is not valid JSON is answered
\* with status 400, and whenever the handler has raised HTTPException(400)
\* (invalid JSON, CSV inputs incomplete and not resolvable) the response
\* carries that status.
C25_BadRequestAnswered400 ==
    pc = "responded" =>
        /\ InvalidJsonSent => status = 400
        /\ raised.kind = "HTTPException" => status = raised.status_code

\* C26: with one caller and sleeps that last at least the time asked for, the
\* request log never holds more than 40 timestamps, and no 60-second window
\* [t, t + 60 s) holds more than 40 recorded requests: the request recorded
\* 40 requests after another one is at least 60 seconds later.
C26_RateLimitRespected ==
    /\ Len(_ors_request_times) <= _ORS_RATE_LIMIT
    /\ \A i, j \in DOMAIN recorded_requests :
          j >= i + _ORS_RATE_LIMIT =>
              recorded_requests[j] - recorded_requests[i] >= Seconds(_ORS_RATE_WINDOW)

\* the last call found 40 timestamps younger than a minute, slept, and left a
\* full log behind
C26_Witness ==
    /\ slept > 0
    /\ Len(recorded_requests) > _ORS_RATE_LIMIT
    /\ Len(_ors_request_times) = _ORS_RATE_LIMIT

\* the last _city_to_coords call has returned
CityReturned == geocoding.at = "returned"

\* the location string has a character that str.strip() keeps
NotBlank(s) == strip(s) # <<>>

\* C27 as stated: for a non-empty location string _city_to_coords makes at
\* most 10 geocoding attempts; when it returns, the location cache holds an
\* entry for that string, equal to what was returned; and a call for a string
\* that was answered before returns that answer without a geocoding request.
C27_NonEmptyStringCached ==
    geocoding.at \in {"loop", "returned"} /\ geocoding.location_str # <<>> =>
        /\ geocoding.attempts <= max_retries
        /\ CityReturned =>
              /\ geocoding.location_str \in DOMAIN _location_cache
              /\ _location_cache[geocoding.location_str] = geocoding.result
        /\ CityReturned /\ geocoding.before # <<>> =>
              /\ geocoding.requests = 0
              /\ geocoding.result = geocoding.before[1].coords

\* C27 amended: for a location string that is not blank, at most 10 attempts
\* are made; when the call returns, the location cache holds what was
\* returned under the stripped string; a call for a string answered before
\* returns that answer without a geocoding request; a blank string is
\* answered None with no request and no cache entry.
C27_StrippedStringCached ==
    geocoding.at \in {"loop", "returned"} =>
        /\ geocoding.attempts <= max_retries
        /\ CityReturned /\ NotBlank(geocoding.location_str) =>
              /\ strip(geocoding.location_str) \in DOMAIN _location_cache
              /\ _location_cache[strip(geocoding.location_str)] = geocoding.result
        /\ CityReturned /\ geocoding.before # <<>> =>
              /\ geocoding.requests = 0
              /\ geocoding.result = geocoding.before[1].coords
        /\ CityReturned /\ ~NotBlank(geocoding.location_str) =>
              /\ geocoding.result = None
              /\ geocoding.requests = 0
              /\ <<>> \notin DOMAIN _location_cache
              /\ geocoding.location_str \notin DOMAIN _location_cache

\* a second call for a string whose first call failed on all 10 attempts has
\* returned the cached None without a request
C27_Witness ==
    /\ CityReturned
    /\ NotBlank(geocoding.location_str)
    /\ geocoding.before # <<>>
    /\ geocoding.before[1].attempts = max_retries
    /\ geocoding.before[1].coords = None
    /\ geocoding.result = None
    /\ geocoding.requests = 0

\* the last _driving_distance_km call has returned
DistanceReturned == routing.at = "returned"

\* C28: _driving_distance_km makes at most 10 attempts at the routing call,
\* and returns None when all 10 have failed, as it does when a coordinate is
\* None or there is no client.
C28_AllRetriesFailedReturnsNone ==
    routing.at \in {"loop", "returned"} =>
        /\ routing.attempts <= max_retries
        /\ DistanceReturned /\ (\/ routing.coords1 = None
                                \/ routing.coords2 = None
                                \/ ~routing.ors_client)
              => routing.result = None
        /\ DistanceReturned /\ routing.consecutive_failures = max_retries
              => routing.result = None

====
